---------------------------- MODULE Spec2Model ----------------------------
(***************************************************************************)
(* eurochef command line: the "edb maps" and "edb textures" extraction     *)
(* commands (cli/src/edb/maps.rs, src/edb/textures.rs), modelled as one    *)
(* sequential program per command.  A file is a row of FileLen record      *)
(* slots; an address is a slot number and address FileLen (or more) lies   *)
(* beyond the end of the file.  What the bytes at an address decode to is  *)
(* given by the functions mapAt, entAt and texAt, one per record type,     *)
(* because binrw decodes whatever bytes it is pointed at as the type it is *)
(* asked for.  The script panel of the viewer (gui/src/scripts.rs) is a     *)
(* second program, PanelSpec: one step is one ScriptListPanel::show call.  *)
(***************************************************************************)
EXTENDS Integers, Sequences, FiniteSets, TLC

\* ------------------------------------------------------------------ bounds
FileLen == 2
MaxMaps == 2
MaxRefs == 2
MaxZones == 2
MaxTrigs == 2
MaxTypes == 2
MaxTex == 2
MaxFrames == 2

\* Size, in slots, of one fixed-size record (map, entity, texture record).
RecordSize == 1

\* The "no subtype" sentinel of a trigger type entry.
NoSubtypeSentinel == 1107296257

InFile == 0 .. (FileLen - 1)
Addrs == 0 .. FileLen

SeqUpTo(S, n) == UNION {[1 .. k -> S] : k \in 0 .. n}

\* Option<T>: None is the empty sequence, Some(x) the one-element sequence.
None == <<>>
Some(x) == <<x>>
IsSome(o) == Len(o) = 1

VARIABLES
    cmd,              \* the subcommand main dispatched: "maps" or "textures"
    pc,               \* position in execute_command
    outcome,          \* [kind, at]: running, ok, err (Err returned), panic
    reads,            \* every read issued on the file: [what, off, len]
    cursor,           \* position of the file cursor
    first_byte,       \* file: the first byte of the file
    platform_arg,     \* the --platform argument: Option<PlatformArg>
    detected,         \* Platform::from_path(&filename): Option<Platform>
    header_platform,  \* file: the platform the file was built for
    endian,           \* the endianness selected for the file, "unset" before
    platform,         \* the platform selected, "unset" before
    texture_decoder,  \* the codec create_for_platform gave: [codec_for]
    decodes,          \* every typed read: [what, endian, off]
    entities,         \* what the nested entities command decoded
    \* --- maps.rs
    map_list,         \* header.map_list: sequence of [address, hashcode]
    refpointer_list,  \* header.refpointer_list: sequence of [address]
    mapAt,            \* file: what a map record read at an address decodes to
    entAt,            \* file: what an entity read at an address decodes to
    trigger_typemap,  \* Option<TriggerInformation>
    mi, zi, ti,       \* loop indices: map, zone, trigger (1-based)
    map,              \* the EXGeoMap being assembled
    export,           \* the EurochefMapExport being built
    written,          \* the .ecm files written: sequence of [hashcode, content]
    \* --- textures.rs
    texture_list,     \* header.texture_list.data: sequence of [address, hashcode]
    texAt,            \* file: what a texture record read at an address decodes to
    txi, fi,          \* loop indices: texture, frame (1-based)
    tex,              \* the EXGeoTexture being extracted
    data,             \* the raw-bytes buffer, one value per slot; 0 is a zero byte
    nalloc,           \* output buffers allocated so far
    saved,            \* images saved: [tex, frame, name, buf, len, pixels]
    \* --- gui/src/scripts.rs: ScriptListPanel
    scripts,          \* the scripts, in list order: [hashcode, length, framerate]
    selected_script,  \* hashcode of the selected script
    current_time,     \* playback time, in units of 1 / TimeScale seconds
    playback_speed,   \* playback speed
    is_playing,       \* playback runs
    loop_script,      \* playback loops
    had_input,        \* history: the last show call carried an input
    last_press        \* history: the panel before and after the last
                      \* play/pause press of the last show call, or None

fileVars == <<mapAt, entAt>>
headerVars == <<map_list, refpointer_list, trigger_typemap>>
mapsVars == <<map_list, refpointer_list, mapAt, entAt, trigger_typemap,
              mi, zi, ti, map, export, written>>
texVars == <<texture_list, texAt, txi, fi, tex, data, nalloc, saved>>
inputVars == <<first_byte, platform_arg, detected, header_platform>>
openVars == <<endian, platform, texture_decoder, entities>>
panelVars == <<scripts, selected_script, current_time, playback_speed, is_playing,
               loop_script, had_input, last_press>>
vars == <<cmd, pc, outcome, reads, cursor, inputVars, openVars, decodes,
          mapsVars, texVars, panelVars>>

\* ------------------------------------------------------------- outcomes
Running == [kind |-> "running", at |-> "-"]
Ok(at) == [kind |-> "ok", at |-> at]
Err(at) == [kind |-> "err", at |-> at]
Panic(at) == [kind |-> "panic", at |-> at]

\* ------------------------------------------------------------ the cursor
\* Mutant of SeekStart: a seek relative to the current position.
SeekCurrent(cur, off) == cur + off

\* Read + Seek: seek(SeekFrom::Start(off)) is absolute.
SeekStart(cur, off) == off

\* A read of len slots at cur succeeds only inside the file
\* (read_exact / binrw fail with UnexpectedEof otherwise).
ReadOk(cur, len) == cur + len <= FileLen

ReadRec(what, cur, len) == [what |-> what, off |-> cur, len |-> len]

\* ----------------------------------------------------------- endianness
\* The marker byte that selects big-endian.
MarkerByte == 71

\* Mutant of EndianOf: the test is the wrong way round.
EndianOf_Swapped(b) == IF b = MarkerByte THEN "Little" ELSE "Big"

\* textures.rs 34-38: the endianness the first byte of the file selects.
EndianOf(b) == IF b = MarkerByte THEN "Big" ELSE "Little"

TypedRead(what, e, off) == [what |-> what, endian |-> e, off |-> off]

\* ------------------------------------------------------------- platforms
PlatformArgs == {"Pc", "Xb", "Xbox", "Xbox360", "Ps2", "Ps3", "Gc", "Gamecube",
                 "Wii", "WiiU"}
Platforms == {"Pc", "Xbox", "Xbox360", "Ps2", "Ps3", "GameCube", "Wii", "WiiU"}

\* main.rs 30-43: impl From<PlatformArg> for Platform.
PlatformFromArg(val) ==
    CASE val = "Pc" -> "Pc"
      [] val \in {"Xbox", "Xb"} -> "Xbox"
      [] val = "Xbox360" -> "Xbox360"
      [] val = "Ps2" -> "Ps2"
      [] val = "Ps3" -> "Ps3"
      [] val \in {"Gamecube", "Gc"} -> "GameCube"
      [] val = "Wii" -> "Wii"
      [] val = "WiiU" -> "WiiU"

\* Mutant of SelectPlatform: the detected platform wins over the argument.
SelectPlatform_DetectedFirst(arg, det) ==
    IF IsSome(det) THEN det
    ELSE IF IsSome(arg) THEN Some(PlatformFromArg(arg[1])) ELSE None

\* platform.map(|p| p.into()).or(Platform::from_path(&filename)): the
\* Option the .expect that follows unwraps.
SelectPlatform(arg, det) ==
    IF IsSome(arg) THEN Some(PlatformFromArg(arg[1])) ELSE det

\* Mutant of CreateForPlatform: the PC codec whatever the platform.
CreateForPlatform_Pc(p) == [codec_for |-> "Pc"]

\* texture::create_for_platform(platform): the codec of a platform.
CreateForPlatform(p) == [codec_for |-> p]

\* ------------------------------------------------------------- entities
\* The entity decoder: the variant a type tag selects; a tag it does not
\* recognise gives the opaque variant, which keeps the tag and the bytes.
VariantOf(tag) ==
    CASE tag = "mapzone" -> "MapZone"
      [] tag = "mesh" -> "Mesh"
      [] OTHER -> "Unknown"

\* Mutant of DecodeEntity: the opaque variant loses its tag.
DecodeEntity_NoTag(raw) ==
    [variant |-> VariantOf(raw.tag),
     tag |-> IF VariantOf(raw.tag) = "Unknown" THEN "-" ELSE raw.tag,
     body |-> raw.body]

DecodeEntity(raw) == [variant |-> VariantOf(raw.tag), tag |-> raw.tag, body |-> raw.body]

\* --------------------------------------------------------------- inputs
FirstBytes == {MarkerByte, 0, 70}
ArgOptions == {None} \cup {Some(a) : a \in PlatformArgs}
DetectedOptions == {None} \cup {Some(q) : q \in Platforms}

\* No argument, a path that names the PC, a little-endian PC file.
DefaultPlatform ==
    /\ platform_arg = None /\ detected = Some("Pc") /\ header_platform = "Pc"

\* An entity in the file: its type tag and the bytes of its body.
EntityCells ==
    {[tag |-> "mapzone", body |-> 1],
     [tag |-> "mapzone", body |-> 2],
     [tag |-> "mesh", body |-> 1],
     [tag |-> "0x7f", body |-> 2]}

TypeEntries ==
    {[trig_type |-> 1, trig_subtype |-> 0],
     [trig_type |-> 2, trig_subtype |-> NoSubtypeSentinel],
     [trig_type |-> 1, trig_subtype |-> 7],
     [trig_type |-> 7, trig_subtype |-> 2]}

\* Trigger definition files: names keyed by type / subtype number.
TypeMaps ==
    {None,
     Some([triggers |-> (1 :> "HT_TriggerType_Generic")]),
     Some([triggers |-> (1 :> "HT_TriggerType_Generic" @@ 7 :> "HT_TriggerSubType_Door"
                         @@ 0 :> "HT_TriggerType_Zero"
                         @@ NoSubtypeSentinel :> "HT_TriggerType_Sentinel")])}

\* The i-th trigger of a list carries its own payload; link_ref stands for it.
MkTriggers(idx) == [i \in 1 .. Len(idx) |-> [type_index |-> idx[i], link_ref |-> i]]
MkZones(idx) == [i \in 1 .. Len(idx) |-> [entity_refptr |-> idx[i]]]
MkMapList(ad) == [i \in 1 .. Len(ad) |-> [address |-> ad[i], hashcode |-> 100 + i]]
MkRefs(ad) == [i \in 1 .. Len(ad) |-> [address |-> ad[i]]]

NoMap == [zones |-> <<>>, trigger_types |-> <<>>, triggers |-> <<>>]
NoExport == [mapzone_entities |-> <<>>, triggers |-> <<>>]

\* The inputs are drawn family by family: each family varies one part of
\* the file over all its values and keeps the rest to records that decode.
SimpleMap ==
    [zones |-> MkZones(<<0>>),
     trigger_types |-> <<[trig_type |-> 1, trig_subtype |-> 7]>>,
     triggers |-> MkTriggers(<<0>>)]
SimpleEntity == [tag |-> "mapzone", body |-> 1]

\* The slot-0 map record is SimpleMap; the varied record fills the others.
MapFile(rich) == [a \in InFile |-> IF a = 0 THEN SimpleMap ELSE rich]
VariedMapLists == {MkMapList(<<1>>), MkMapList(<<0, 1>>)}

\* The map list varies.
MapListInputs ==
    /\ map_list \in {MkMapList(a) : a \in SeqUpTo(Addrs, MaxMaps)}
    /\ refpointer_list = MkRefs(<<0>>)
    /\ entAt = [a \in InFile |-> SimpleEntity]
    /\ mapAt = MapFile(SimpleMap)
    /\ trigger_typemap = None

\* The reference table, the zones of the map in slot 1 and the entities
\* vary.  A slot no reference pointer names holds SimpleEntity.
ZoneInputs ==
    /\ map_list \in VariedMapLists
    /\ refpointer_list \in {MkRefs(a) : a \in SeqUpTo(Addrs, MaxRefs)}
    /\ entAt \in [InFile -> EntityCells]
    /\ \A a \in InFile \ {0} :
         (\A k \in 1 .. Len(refpointer_list) : refpointer_list[k].address # a)
             => entAt[a] = SimpleEntity
    /\ entAt[0].tag = "mapzone"
    /\ \E zs \in SeqUpTo(0 .. MaxRefs, MaxZones) :
         mapAt = MapFile([SimpleMap EXCEPT !.zones = MkZones(zs)])
    /\ trigger_typemap = None

\* The type table and the triggers of the map in slot 1 and the trigger
\* definition file vary.
TriggerInputs ==
    /\ map_list \in VariedMapLists
    /\ refpointer_list = MkRefs(<<0>>)
    /\ entAt = [a \in InFile |-> SimpleEntity]
    /\ \E tys \in (SeqUpTo(TypeEntries, MaxTypes) \ {<<>>}),
          ts \in SeqUpTo(0 .. MaxTypes, MaxTrigs) :
         mapAt = MapFile([SimpleMap EXCEPT !.trigger_types = tys,
                                           !.triggers = MkTriggers(ts)])
    /\ trigger_typemap \in TypeMaps

\* The platform argument and the platform the path names vary.
MapsPlatformInputs ==
    /\ map_list = MkMapList(<<0>>)
    /\ refpointer_list = MkRefs(<<0>>)
    /\ entAt = [a \in InFile |-> SimpleEntity]
    /\ mapAt = MapFile(SimpleMap)
    /\ trigger_typemap = None
    /\ platform_arg \in ArgOptions
    /\ detected \in DetectedOptions
    /\ header_platform = "Pc"

MapsInit ==
    /\ cmd = "maps"
    /\ \/ (MapListInputs \/ ZoneInputs \/ TriggerInputs) /\ DefaultPlatform
       \/ MapsPlatformInputs
    /\ first_byte = 0
    /\ mi = 1 /\ zi = 1 /\ ti = 1
    /\ map = NoMap
    /\ export = NoExport
    /\ written = <<>>

\* Texture records: every shape with every frame list, plus the formats the
\* codec rejects and the records that store an explicit data size.
Dims == {<<1, 1, 1>>, <<2, 1, 1>>, <<1, 1, 2>>, <<1, 1, 0>>}

TexRec(dm, f, ds, fo) ==
    [width |-> dm[1], height |-> dm[2], depth |-> dm[3], format |-> f,
     data_size |-> ds, frame_offsets |-> fo]

TexRecords ==
    {TexRec(dm, "raw", None, fo) : dm \in Dims, fo \in SeqUpTo(Addrs, MaxFrames)}
    \cup {TexRec(<<1, 1, 1>>, f, None, <<0>>) : f \in {"unknown", "undecodable"}}
    \cup {TexRec(dm, "raw", Some(n), <<0>>) : dm \in {<<1, 1, 1>>, <<2, 1, 1>>}, n \in 1 .. 2}

NoTex == TexRec(<<1, 1, 1>>, "raw", None, <<>>)
SimpleTex == TexRec(<<1, 1, 1>>, "raw", None, <<0>>)
CoreTexRecords == {SimpleTex, TexRec(<<1, 1, 1>>, "unknown", None, <<0>>)}

MkTexList(ad) == [i \in 1 .. Len(ad) |-> [address |-> ad[i], hashcode |-> 200 + i]]

\* The texture list varies.
TexListInputs ==
    /\ texture_list \in {MkTexList(a) : a \in SeqUpTo(Addrs, MaxTex)}
    /\ texAt = [a \in InFile |-> SimpleTex]

\* The record in slot 1 varies, before or after a record in slot 0.
TexRecordInputs ==
    /\ texture_list \in {MkTexList(<<1>>), MkTexList(<<0, 1>>), MkTexList(<<1, 0>>)}
    /\ \E rich \in TexRecords, core \in CoreTexRecords :
         texAt = [a \in InFile |-> IF a = 0 THEN core ELSE rich]

\* The platform argument, the platform the path names and the platform
\* of the file vary.
TexPlatformInputs ==
    /\ texture_list = MkTexList(<<0>>)
    /\ texAt = [a \in InFile |-> SimpleTex]
    /\ platform_arg \in ArgOptions
    /\ detected \in DetectedOptions
    /\ header_platform \in {"Pc", "GameCube"}

TexInit ==
    /\ cmd = "textures"
    /\ \/ (TexListInputs \/ TexRecordInputs) /\ DefaultPlatform
       \/ TexPlatformInputs
    /\ first_byte \in FirstBytes
    /\ txi = 1 /\ fi = 1
    /\ tex = NoTex
    /\ data = <<>>
    /\ nalloc = 0
    /\ saved = <<>>

MapsIdle ==
    /\ map_list = <<>> /\ refpointer_list = <<>>
    /\ mapAt = [a \in InFile |-> NoMap]
    /\ entAt = [a \in InFile |-> [tag |-> "mesh", body |-> 1]]
    /\ trigger_typemap = None
    /\ mi = 1 /\ zi = 1 /\ ti = 1
    /\ map = NoMap /\ export = NoExport /\ written = <<>>

TexIdle ==
    /\ texture_list = <<>>
    /\ texAt = [a \in InFile |-> NoTex]
    /\ txi = 1 /\ fi = 1
    /\ tex = NoTex /\ data = <<>> /\ nalloc = 0 /\ saved = <<>>

\* --------------------------------------------------- gui/src/scripts.rs
\* Bounds of the panel: script lengths (frames), the time one show call can
\* add (delta_time, in ticks), how far below 0 the model follows the time
\* (frames), and how far it follows the time of a panel without a script.
MaxLength == 2
MaxDelta == 2
MaxBack == 2
MaxIdleTime == 3

\* current_time is in seconds; the model counts it in ticks of
\* 1 / TimeScale seconds, which every frame time of the frame rates below
\* is a whole number of.
TimeScale == 2
FrameRates == {1, 2}

\* playback_speed, as a multiple of the slowest speed of the model.
Speeds == {1, 2}

\* ScriptListPanel::new: the hashcode u32::MAX (0xffffffff, written here as
\* the 32-bit value -1) when the file has no script.
NoScriptHashcode == -1

ScriptRecords ==
    {[length |-> l, framerate |-> r] : l \in 0 .. MaxLength, r \in FrameRates}
SimpleScript == [length |-> 1, framerate |-> 1]
MkScripts(rs) ==
    [i \in 1 .. Len(rs) |->
        [hashcode |-> 300 + i, length |-> rs[i].length, framerate |-> rs[i].framerate]]

\* No script, one script, or two of which one varies.
ScriptLists ==
    {MkScripts(<<>>)}
    \cup {MkScripts(<<r>>) : r \in ScriptRecords}
    \cup {MkScripts(<<SimpleScript, r>>) : r \in ScriptRecords}
    \cup {MkScripts(<<r, SimpleScript>>) : r \in ScriptRecords}

\* The panel as a record, for the steps of one show call.
Panel(sel, t, speed, playing, loop) ==
    [selected_script |-> sel, current_time |-> t, playback_speed |-> speed,
     is_playing |-> playing, loop_script |-> loop]
ThePanel == Panel(selected_script, current_time, playback_speed, is_playing, loop_script)

\* Lines 66-68: current_script().
CurrentScript(scr, sel) ==
    IF \E i \in 1 .. Len(scr) : scr[i].hashcode = sel
    THEN Some(scr[CHOOSE i \in 1 .. Len(scr) : scr[i].hashcode = sel])
    ELSE None

\* script.length as f32 / script.framerate, in ticks.
EndTime(script) == (script.length * TimeScale) \div script.framerate

\* (x as i32) of the quotient a / b: truncation towards zero.
Trunc(a, b) == IF a >= 0 THEN a \div b ELSE -((-a) \div b)

\* (self.current_time * s.framerate) as i32.
CurrentFrame(t, script) == Trunc(t * script.framerate, TimeScale)

\* frame as f32 / s.framerate, in ticks.
FrameTime(frame, script) ==
    IF frame >= 0 THEN (frame * TimeScale) \div script.framerate
    ELSE -(((-frame) * TimeScale) \div script.framerate)

\* Lines 105-114: a click on the i-th entry of the script list.
Select(scr, p, click) ==
    IF IsSome(click)
    THEN [p EXCEPT !.selected_script = scr[click[1]].hashcode, !.current_time = 0]
    ELSE p

\* Lines 122-126: the speed drag value.
SetSpeed(p, v) == IF IsSome(v) THEN [p EXCEPT !.playback_speed = v[1]] ELSE p

\* Lines 250-259 and 282-291: step one frame back (by = -1) or on (by = 1).
Step(scr, p, pressed, by) ==
    LET c == CurrentScript(scr, p.selected_script)
    IN IF pressed /\ IsSome(c)
       THEN [p EXCEPT !.current_time =
                FrameTime(CurrentFrame(p.current_time, c[1]) + by, c[1])]
       ELSE p

\* Mutant of PlayPause: the time is not reset at the end of the script.
PlayPause_NoReset(scr, p, pressed) ==
    IF pressed THEN [p EXCEPT !.is_playing = ~p.is_playing] ELSE p

\* Lines 261-280: the play/pause button or the space key.
PlayPause(scr, p, pressed) ==
    LET c == CurrentScript(scr, p.selected_script)
    IN IF ~pressed THEN p
       ELSE IF IsSome(c) /\ p.current_time >= EndTime(c[1])
       THEN [p EXCEPT !.is_playing = ~p.is_playing, !.current_time = 0]
       ELSE [p EXCEPT !.is_playing = ~p.is_playing]

\* Lines 293-306: the loop button.
LoopToggle(p, pressed) == IF pressed THEN [p EXCEPT !.loop_script = ~p.loop_script] ELSE p

\* Mutant of Advance: looping playback stops when it wraps.
Advance_LoopStops(scr, p, delta) ==
    LET t1 == IF p.is_playing THEN p.current_time + delta * p.playback_speed
              ELSE p.current_time
        c == CurrentScript(scr, p.selected_script)
    IN IF IsSome(c) /\ t1 > EndTime(c[1])
       THEN [p EXCEPT !.current_time = IF p.loop_script THEN 0 ELSE EndTime(c[1]),
                      !.is_playing = FALSE]
       ELSE [p EXCEPT !.current_time = t1]

\* Lines 154-166: the time advances while playing; behind the end of the
\* script it wraps (loop) or stops at the end.
Advance(scr, p, delta) ==
    LET t1 == IF p.is_playing THEN p.current_time + delta * p.playback_speed
              ELSE p.current_time
        c == CurrentScript(scr, p.selected_script)
    IN IF IsSome(c) /\ t1 > EndTime(c[1])
       THEN IF p.loop_script THEN [p EXCEPT !.current_time = 0]
            ELSE [p EXCEPT !.current_time = EndTime(c[1]), !.is_playing = FALSE]
       ELSE [p EXCEPT !.current_time = t1]

NoInput ==
    [click |-> None, speed |-> None, back |-> FALSE, play |-> FALSE, fwd |-> FALSE,
     loop |-> FALSE]

\* What one show call can be given: any set of the four controls (buttons
\* and keys) at once, a click in the script list with or without play/pause,
\* or a new speed.
ShowInputs(scr) ==
    {[NoInput EXCEPT !.back = b, !.play = pl, !.fwd = f, !.loop = l] :
        b \in BOOLEAN, pl \in BOOLEAN, f \in BOOLEAN, l \in BOOLEAN}
    \cup {[NoInput EXCEPT !.click = Some(i), !.play = pl] :
             i \in 1 .. Len(scr), pl \in BOOLEAN}
    \cup {[NoInput EXCEPT !.speed = Some(v)] : v \in Speeds}

\* Lines 39-64: ScriptListPanel::new.
PanelNew ==
    /\ scripts \in ScriptLists
    /\ selected_script = IF Len(scripts) > 0 THEN scripts[1].hashcode ELSE NoScriptHashcode
    /\ current_time = 0
    /\ playback_speed = 1
    /\ is_playing = FALSE
    /\ loop_script = FALSE
    /\ had_input = FALSE
    /\ last_press = None

\* No panel: the command line commands have none.
PanelIdle ==
    /\ scripts = <<>>
    /\ selected_script = NoScriptHashcode
    /\ current_time = 0
    /\ playback_speed = 1
    /\ is_playing = FALSE
    /\ loop_script = FALSE
    /\ had_input = FALSE
    /\ last_press = None

Init ==
    /\ PanelIdle
    /\ pc = "open"
    /\ outcome = Running
    /\ reads = {}
    /\ cursor = 0
    /\ endian = "unset" /\ platform = "unset"
    /\ texture_decoder = [codec_for |-> "unset"]
    /\ decodes = {}
    /\ entities = <<>>
    /\ \/ MapsInit /\ TexIdle
       \/ TexInit /\ MapsIdle

\* ---------------------------------------------------------------- maps.rs
Finish(o) == pc' = "done" /\ outcome' = o

\* Where the map loop goes once the zones are done, and once the map is read.
AfterZones(m) == IF Len(m.triggers) > 0 THEN "trigger" ELSE "write"
AfterMapRead(m) == IF Len(m.zones) > 0 THEN "zone" ELSE AfterZones(m)

\* What the environment can do to the steps before the nested entities
\* command: load_trigger_types (File::open(..).unwrap(), then
\* serde_yaml ..?), File::open and EdbFile::new.
OpenResults == {"ok", "typemap_missing", "typemap_err", "open_err", "header_err"}

\* Lines 27-52: the trigger definitions, the platform, the file and its
\* header.  EdbFile::new selects the endianness and leaves the cursor behind
\* the header, wherever that is.
MapsOpen ==
    /\ cmd = "maps" /\ pc = "open"
    /\ LET sel == SelectPlatform(platform_arg, detected)
       IN \E env \in OpenResults :
            IF env = "typemap_missing" /\ IsSome(trigger_typemap)
            THEN Finish(Panic("trigger_defs")) /\ UNCHANGED <<cursor, endian, platform>>
            ELSE IF env = "typemap_err" /\ IsSome(trigger_typemap)
            THEN Finish(Err("trigger_defs")) /\ UNCHANGED <<cursor, endian, platform>>
            ELSE IF ~IsSome(sel)
            THEN Finish(Panic("platform")) /\ UNCHANGED <<cursor, endian, platform>>
            ELSE /\ platform' = sel[1]
                 /\ IF env = "open_err"
                    THEN Finish(Err("open")) /\ UNCHANGED <<cursor, endian>>
                    ELSE IF env = "header_err"
                    THEN Finish(Err("header")) /\ UNCHANGED <<cursor, endian>>
                    ELSE /\ endian' = EndianOf(first_byte)
                         /\ \E c \in Addrs : cursor' = c
                         /\ IF Len(map_list) = 0 THEN Finish(Ok("no_maps"))
                            ELSE pc' = "entities" /\ outcome' = outcome
    /\ UNCHANGED <<cmd, panelVars, reads, inputVars, texture_decoder, entities, decodes,
                   mapsVars, texVars>>

\* Mutant of NestedCursor: the nested command reads through the cursor of
\* the maps command and leaves it at the end of the file.
NestedCursor_Shared(cur) == FileLen

\* Lines 55-61: the nested entities command is given the file name and opens
\* the file itself; the cursor of the maps command stays where it stood.
NestedCursor(cur) == cur

EntitiesResults == {"ok", "entities_err", "mkdir_err"}

\* Lines 54-64: the nested entities command, which decodes every entity of
\* the file, and create_dir_all.
MapsEntities ==
    /\ cmd = "maps" /\ pc = "entities"
    /\ cursor' = NestedCursor(cursor)
    /\ \E env \in EntitiesResults :
         IF env = "entities_err"
         THEN Finish(Err("entities")) /\ entities' = entities
         ELSE /\ entities' = [i \in 1 .. FileLen |-> DecodeEntity(entAt[i - 1])]
              /\ IF env = "mkdir_err" THEN Finish(Err("mkdir"))
                 ELSE pc' = "map" /\ outcome' = outcome
    /\ UNCHANGED <<cmd, panelVars, reads, inputVars, endian, platform, texture_decoder, decodes,
                   mapsVars, texVars>>

\* Lines 66-79: seek to the map record, read it, start the export (its
\* paths, placements and lights are copies of the map's and are left out).
MapBegin ==
    /\ cmd = "maps" /\ pc = "map"
    /\ LET m == map_list[mi]
           c1 == SeekStart(cursor, m.address)
       IN /\ reads' = reads \cup {ReadRec("map", c1, RecordSize)}
          /\ decodes' = decodes \cup {TypedRead("map", endian, c1)}
          /\ IF ReadOk(c1, RecordSize)
             THEN /\ map' = mapAt[c1]
                  /\ cursor' = c1 + RecordSize
                  /\ export' = NoExport
                  /\ zi' = 1 /\ ti' = 1
                  /\ pc' = AfterMapRead(mapAt[c1])
                  /\ outcome' = outcome
             ELSE /\ Finish(Err("read_map"))
                  /\ cursor' = c1
                  /\ UNCHANGED <<map, export, zi, ti>>
    /\ UNCHANGED <<cmd, panelVars, inputVars, openVars, headerVars, fileVars, mi, written, texVars>>

\* Mutant of IsMapZone: any variant is taken for a mapzone.
IsMapZone_AnyVariant(ent) == TRUE

\* Line 88: if let EXGeoEntity::MapZone(mapzone) = ent.
IsMapZone(ent) == ent.variant = "MapZone"

\* Lines 81-93: one zone: reference table, seek, entity decode, variant check.
Zone ==
    /\ cmd = "maps" /\ pc = "zone"
    /\ LET z == map.zones[zi]
       IN IF z.entity_refptr >= Len(refpointer_list)
          THEN /\ Finish(Panic("refptr_index"))
               /\ UNCHANGED <<reads, decodes, cursor, export, zi>>
          ELSE LET entity_offset == refpointer_list[z.entity_refptr + 1].address
                   c1 == SeekStart(cursor, entity_offset)
                   ent == DecodeEntity(entAt[c1])
               IN /\ reads' = reads \cup {ReadRec("entity", c1, RecordSize)}
                  /\ decodes' = decodes \cup {TypedRead("entity", endian, c1)}
                  /\ IF ~ReadOk(c1, RecordSize)
                     THEN /\ Finish(Err("read_entity"))
                          /\ cursor' = c1
                          /\ UNCHANGED <<export, zi>>
                     ELSE /\ cursor' = c1 + RecordSize
                          /\ IF IsMapZone(ent)
                             THEN /\ export' = [export EXCEPT !.mapzone_entities =
                                                  Append(@, ent)]
                                  /\ zi' = zi + 1
                                  /\ pc' = IF zi < Len(map.zones) THEN "zone"
                                           ELSE AfterZones(map)
                                  /\ outcome' = outcome
                             ELSE /\ Finish(Err("not_mapzone"))
                                  /\ UNCHANGED <<export, zi>>
    /\ UNCHANGED <<cmd, panelVars, inputVars, openVars, headerVars, fileVars, mi, ti, map,
                   written, texVars>>

\* format!("Trig_{ttype}") and format!("TrigSub_{tsubtype}").
FormatTrig(n) == "Trig_" \o ToString(n)
FormatTrigSub(n) == "TrigSub_" \o ToString(n)

\* Mutant of RawSubtype: the sentinel is not recognised.
RawSubtype_ZeroOnly(tsubtype) ==
    IF tsubtype # 0 THEN Some(FormatTrigSub(tsubtype)) ELSE None

\* Lines 106-110: the subtype before any name lookup.
RawSubtype(tsubtype) ==
    IF tsubtype # 0 /\ tsubtype # NoSubtypeSentinel
    THEN Some(FormatTrigSub(tsubtype))
    ELSE None

\* Lines 123-135: names from the trigger definition file, when one was given.
NameType(typemap, ttype, raw) ==
    IF IsSome(typemap) /\ ttype \in DOMAIN typemap[1].triggers
    THEN typemap[1].triggers[ttype]
    ELSE raw

NameSubtype(typemap, tsubtype, raw) ==
    IF IsSome(typemap) /\ IsSome(raw) /\ tsubtype \in DOMAIN typemap[1].triggers
    THEN Some(typemap[1].triggers[tsubtype])
    ELSE raw

\* Mutant of MakeTrigger: the type is named after the trigger's type_index,
\* not after the trig_type of the table entry.
MakeTrigger_ByIndex(t, tt, typemap) ==
    [link_ref |-> t.link_ref,
     ttype |-> NameType(typemap, t.type_index, FormatTrig(t.type_index)),
     tsubtype |-> NameSubtype(typemap, tt.trig_subtype, RawSubtype(tt.trig_subtype))]

\* Lines 97-135: the UXGeoTrigger built for trigger t with type table entry tt.
MakeTrigger(t, tt, typemap) ==
    [link_ref |-> t.link_ref,
     ttype |-> NameType(typemap, tt.trig_type, FormatTrig(tt.trig_type)),
     tsubtype |-> NameSubtype(typemap, tt.trig_subtype, RawSubtype(tt.trig_subtype))]

\* Mutant of Trigger: the payload is moved out of the map record.
Trigger_Consuming ==
    /\ cmd = "maps" /\ pc = "trigger"
    /\ map.triggers[ti].type_index < Len(map.trigger_types)
    /\ export' = [export EXCEPT !.triggers =
                    Append(@, MakeTrigger(map.triggers[ti],
                                          map.trigger_types[map.triggers[ti].type_index + 1],
                                          trigger_typemap))]
    /\ map' = [map EXCEPT !.triggers[ti].link_ref = 0]
    /\ ti' = ti + 1
    /\ pc' = IF ti < Len(map.triggers) THEN "trigger" ELSE "write"
    /\ UNCHANGED <<cmd, panelVars, outcome, reads, cursor, inputVars, openVars, decodes, headerVars,
                   fileVars, mi, zi, written, texVars>>

\* Lines 95-138: one trigger.
Trigger ==
    /\ cmd = "maps" /\ pc = "trigger"
    /\ LET t == map.triggers[ti]
       IN IF t.type_index >= Len(map.trigger_types)
          THEN /\ Finish(Panic("trigger_type_index"))
               /\ UNCHANGED <<export, ti>>
          ELSE /\ export' = [export EXCEPT !.triggers =
                               Append(@, MakeTrigger(t, map.trigger_types[t.type_index + 1],
                                                     trigger_typemap))]
               /\ ti' = ti + 1
               /\ pc' = IF ti < Len(map.triggers) THEN "trigger" ELSE "write"
               /\ outcome' = outcome
    /\ UNCHANGED <<cmd, panelVars, reads, cursor, inputVars, openVars, decodes, headerVars,
                   fileVars, mi, zi, map, written, texVars>>

\* What File::create, the serializer and write_all can do.
WriteResults == {"ok", "create_err", "serialize_err", "write_err"}

\* Lines 140-146: write the .ecm file of this map and go to the next map.
\* File::create has made (and truncated) the file before a later step fails.
MapWrite ==
    /\ cmd = "maps" /\ pc = "write"
    /\ \E io \in WriteResults :
         /\ written' = IF io = "create_err" THEN written
                       ELSE Append(written,
                                   [hashcode |-> map_list[mi].hashcode,
                                    content |-> IF io = "ok" THEN Some(export) ELSE None])
         /\ IF io # "ok" THEN Finish(Err(io)) /\ mi' = mi
            ELSE IF mi < Len(map_list)
            THEN pc' = "map" /\ mi' = mi + 1 /\ outcome' = outcome
            ELSE Finish(Ok("maps")) /\ mi' = mi
    /\ UNCHANGED <<cmd, panelVars, reads, cursor, inputVars, openVars, decodes, headerVars,
                   fileVars, zi, ti, map, export, texVars>>

MapsNext == MapsOpen \/ MapsEntities \/ MapBegin \/ Zone \/ Trigger \/ MapWrite

\* ------------------------------------------------------------ textures.rs
\* The bytes of slot a of the file; never the zero byte a fresh buffer holds.
RawAt(a) == a + 1

\* TextureDecoder::get_data_size: None is "unsupported format".
GetDataSize(width, height, depth, format) ==
    IF format = "unknown" THEN None ELSE Some(width * height * depth)

\* TextureDecoder::decode: fails on a format it cannot decode and on a raw
\* buffer shorter than the format needs; the pixels depend on nothing else.
DecodeOk(d, width, height, depth, format) ==
    /\ format = "raw"
    /\ Len(d) >= width * height * depth

Pixels(d, width, height, depth, format) ==
    [raw |-> d, dims |-> <<width, height, depth>>, format |-> format]

\* Mutant of ChosenSize: the stored data_size is ignored.
ChosenSize_Calculated(t, calculated_size) == calculated_size

\* Lines 79-83: the raw buffer, cleared and zero-filled at the chosen size.
ChosenSize(t, calculated_size) ==
    IF IsSome(t.data_size) THEN t.data_size[1] ELSE calculated_size

Zeros(n) == [i \in 1 .. n |-> 0]

\* Mutant of ClearResize: the buffer is resized without being cleared.
ClearResize_NoClear(d, n) == [i \in 1 .. n |-> IF i <= Len(d) THEN d[i] ELSE 0]

\* Lines 79-83: data.clear(); data.resize(n, 0u8).
ClearResize(d, n) == Zeros(n)

\* Mutant of OutputLen: the depth is left out.
OutputLen_NoDepth(t) == t.width * t.height * 4

\* Line 89: the length of the output buffer of one frame.
OutputLen(t) == t.width * t.height * t.depth * 4

\* Line 111: RgbaImage::from_raw is None when the buffer is too short.
FromRawOk(width, height, len) == width * height * 4 <= len

\* Mutant of ReadExact: a short read zeroes what it could not fill.
ReadExact_Zeroing(d, cur) ==
    [i \in 1 .. Len(d) |-> IF cur + i - 1 < FileLen THEN RawAt(cur + i - 1) ELSE 0]

\* Line 93: read_exact fills the buffer with what the file has from cur on
\* and fails when that is less than the buffer.
ReadExact(d, cur) ==
    [i \in 1 .. Len(d) |-> IF cur + i - 1 < FileLen THEN RawAt(cur + i - 1) ELSE d[i]]

TexOpenResults == {"ok", "open_err", "empty_file", "header_err"}

\* Lines 23-65: open the file, select the endianness from its first byte,
\* seek back to the start, read the header, select the platform and create
\* its decoder.
TexOpen ==
    /\ cmd = "textures" /\ pc = "open"
    /\ LET sel == SelectPlatform(platform_arg, detected)
           e == EndianOf(first_byte)
           c0 == SeekStart(1, 0)
       IN \E env \in TexOpenResults :
            IF env = "open_err"
            THEN /\ Finish(Err("open"))
                 /\ UNCHANGED <<cursor, endian, decodes, platform, texture_decoder>>
            ELSE IF env = "empty_file"
            THEN /\ Finish(Panic("marker"))
                 /\ UNCHANGED <<cursor, endian, decodes, platform, texture_decoder>>
            ELSE /\ endian' = e
                 /\ cursor' = c0
                 /\ decodes' = decodes \cup {TypedRead("header", e, c0)}
                 /\ IF env = "header_err"
                    THEN Finish(Panic("header")) /\ UNCHANGED <<platform, texture_decoder>>
                    ELSE IF ~IsSome(sel)
                    THEN Finish(Panic("platform")) /\ UNCHANGED <<platform, texture_decoder>>
                    ELSE /\ platform' = sel[1]
                         /\ texture_decoder' = CreateForPlatform(sel[1])
                         /\ IF Len(texture_list) = 0 THEN Finish(Ok("textures"))
                            ELSE pc' = "tex" /\ outcome' = outcome
    /\ UNCHANGED <<cmd, panelVars, reads, inputVars, entities, mapsVars, texVars>>

\* Where the texture loop goes after the last frame of texture txi.
NextTexture ==
    IF txi < Len(texture_list)
    THEN pc' = "tex" /\ txi' = txi + 1 /\ outcome' = outcome
    ELSE Finish(Ok("textures")) /\ txi' = txi

\* Lines 66-85: seek to the texture record, read it, size the raw buffer.
TexBegin ==
    /\ cmd = "textures" /\ pc = "tex"
    /\ LET t == texture_list[txi]
           c1 == SeekStart(cursor, t.address)
       IN /\ reads' = reads \cup {ReadRec("texture", c1, RecordSize)}
          /\ decodes' = decodes \cup {TypedRead("texture", endian, c1)}
          /\ IF ~ReadOk(c1, RecordSize)
             THEN /\ Finish(Panic("read_basetexture"))
                  /\ cursor' = c1
                  /\ UNCHANGED <<txi, fi, tex, data>>
             ELSE LET r == texAt[c1]
                      calculated_size == GetDataSize(r.width, r.height, r.depth, r.format)
                  IN /\ tex' = r
                     /\ cursor' = c1 + RecordSize
                     /\ IF ~IsSome(calculated_size)
                        THEN /\ Finish(Panic("texture_format"))
                             /\ UNCHANGED <<txi, fi, data>>
                        ELSE /\ data' = ClearResize(data, ChosenSize(r, calculated_size[1]))
                             /\ fi' = 1
                             /\ \E mk \in {"ok", "mkdir_err"} :
                                  IF mk = "mkdir_err" THEN Finish(Err("mkdir")) /\ txi' = txi
                                  ELSE IF Len(r.frame_offsets) > 0
                                  THEN pc' = "frame" /\ outcome' = outcome /\ txi' = txi
                                  ELSE NextTexture
    /\ UNCHANGED <<cmd, panelVars, inputVars, openVars, mapsVars, texture_list, texAt, nalloc, saved>>

\* Lines 87-115: one frame: allocate, seek, read, decode, build, save.
Frame ==
    /\ cmd = "textures" /\ pc = "frame"
    /\ LET t == texture_list[txi]
           output == nalloc + 1
           len == OutputLen(tex)
           c1 == SeekStart(cursor, tex.frame_offsets[fi])
           d1 == ReadExact(data, c1)
       IN /\ nalloc' = output
          /\ reads' = reads \cup {ReadRec("frame", c1, Len(data))}
          /\ cursor' = IF ReadOk(c1, Len(data)) THEN c1 + Len(data) ELSE FileLen
          /\ data' = d1
          /\ IF ~DecodeOk(d1, tex.width, tex.height, tex.depth, tex.format)
             THEN Finish(Err("decode")) /\ UNCHANGED <<txi, fi, saved>>
             ELSE IF ~FromRawOk(tex.width, tex.height, len)
             THEN Finish(Panic("from_raw")) /\ UNCHANGED <<txi, fi, saved>>
             ELSE \E io \in {"ok", "save_err"} :
                    IF io = "save_err"
                    THEN Finish(Err("save")) /\ UNCHANGED <<txi, fi, saved>>
                    ELSE /\ saved' = Append(saved,
                                [tex |-> txi, frame |-> fi,
                                 name |-> <<t.hashcode, fi - 1>>,
                                 buf |-> output, len |-> len,
                                 pixels |-> Pixels(d1, tex.width, tex.height,
                                                   tex.depth, tex.format)])
                         /\ IF fi < Len(tex.frame_offsets)
                            THEN pc' = "frame" /\ fi' = fi + 1 /\ outcome' = outcome
                                 /\ txi' = txi
                            ELSE NextTexture /\ fi' = fi
    /\ UNCHANGED <<cmd, panelVars, inputVars, openVars, decodes, mapsVars, texture_list, texAt, tex>>

TexNext == TexOpen \/ TexBegin \/ Frame

Next == MapsNext \/ TexNext

Spec == Init /\ [][Next]_vars

\* --------------------------------------------- ScriptListPanel::show
\* Lines 92-167: one show call with input inp, delta ticks after the call
\* before: the script list, the speed, the controls (back, play/pause,
\* forward, loop), then the playback time.
Show(inp, delta) ==
    \E p2 \in {Step(scripts, SetSpeed(Select(scripts, ThePanel, inp.click), inp.speed),
                     inp.back, -1)} :
    \E p3 \in {PlayPause(scripts, p2, inp.play)} :
    \E p5 \in {Advance(scripts, LoopToggle(Step(scripts, p3, inp.fwd, 1), inp.loop),
                        delta)} :
       /\ p2.current_time >= -(MaxBack * TimeScale)
       /\ p5.current_time <= MaxIdleTime \/ IsSome(CurrentScript(scripts, p5.selected_script))
       /\ selected_script' = p5.selected_script
       /\ current_time' = p5.current_time
       /\ playback_speed' = p5.playback_speed
       /\ is_playing' = p5.is_playing
       /\ loop_script' = p5.loop_script
       /\ had_input' = (inp # NoInput)
       /\ last_press' = IF inp.play THEN Some([before |-> p2, after |-> p3]) ELSE None
       /\ UNCHANGED <<scripts, cmd, pc, outcome, reads, cursor, inputVars, openVars,
                      decodes, mapsVars, texVars>>

ShowFrame == \E inp \in ShowInputs(scripts), delta \in 0 .. MaxDelta : Show(inp, delta)

\* A show call without input, some time after the one before.
PlainFrame == \E delta \in 1 .. MaxDelta : Show(NoInput, delta)

PanelInit ==
    /\ PanelNew
    /\ cmd = "gui" /\ pc = "done"
    /\ outcome = Running
    /\ reads = {}
    /\ cursor = 0
    /\ endian = "unset" /\ platform = "unset"
    /\ texture_decoder = [codec_for |-> "unset"]
    /\ decodes = {}
    /\ entities = <<>>
    /\ first_byte = 0 /\ DefaultPlatform
    /\ MapsIdle /\ TexIdle

PanelNext == ShowFrame

PanelSpec == PanelInit /\ [][PanelNext]_vars

\* The frames keep coming while the panel is shown.
PanelLiveSpec == PanelSpec /\ WF_vars(PlainFrame)

\* =================================================================== claims
\* Helpers of the formulas: what the file holds for zone i / trigger i of the
\* current map, read off the inputs, not off what the program computed.
ZoneRef(i) == map.zones[i].entity_refptr
ZoneAddress(i) == refpointer_list[ZoneRef(i) + 1].address
ZoneResolves(i) ==
    /\ ZoneRef(i) < Len(refpointer_list)
    /\ ZoneAddress(i) + RecordSize <= FileLen
\* Decoding an entity at an address on a cursor of its own.
DirectEntity(a) == DecodeEntity(entAt[a])
TypeIndexValid(i) == map.triggers[i].type_index < Len(map.trigger_types)
TableEntry(i) == map.trigger_types[map.triggers[i].type_index + 1]
ZonesDone == cmd = "maps" /\ (pc \in {"trigger", "write"} \/ outcome = Ok("maps"))
TriggersDone == cmd = "maps" /\ (pc = "write" \/ outcome = Ok("maps"))

\* C1: reference resolution is bounds-checked: an index outside the
\* reference table ends in the error value InvalidReference, never in an
\* abort, and every address the table yields lies inside the file.
C1_ResolveBoundsChecked ==
    /\ outcome # Panic("refptr_index")
    /\ \A r \in reads : r.what = "entity" => r.off < FileLen

\* C2: a record array is read only after address + count * record_size was
\* found to be within the file: no read of a texture record or a map record
\* is issued that reaches beyond the end of the file.
C2_ReadArrayChecked ==
    \A r \in reads : r.what \in {"texture", "map"} => r.off + r.len <= FileLen

\* C3: no seek + read is ever issued for an (offset, length) pair with
\* offset + length > file_length, whatever kind of record is read.
C3_NoReadBeyondFile ==
    \A r \in reads : r.off + r.len <= FileLen

\* C4: bulk texture extraction isolates per-record failures: when a record
\* fails to read or decode, the loop still reaches the last record of the
\* texture list.
RecordFailures == {"read_basetexture", "texture_format", "decode", "from_raw", "save"}
C4_FailuresIsolated ==
    (cmd = "textures" /\ pc = "done" /\ outcome.at \in RecordFailures)
        => txi = Len(texture_list)

\* C5: map assembly requires the MapZone variant: once the zones of a map are
\* assembled, every zone resolved, decoded to a MapZone, and the export holds
\* exactly one mapzone entity per zone descriptor, in zone order; when a
\* zone's entity is another variant, assembly fails with the zone error and
\* no output is written for that map.
C5_ZonesAssembled ==
    /\ ZonesDone =>
         /\ Len(export.mapzone_entities) = Len(map.zones)
         /\ \A i \in 1 .. Len(map.zones) :
              /\ ZoneResolves(i)
              /\ DirectEntity(ZoneAddress(i)).variant = "MapZone"
              /\ export.mapzone_entities[i].variant = "MapZone"
              /\ export.mapzone_entities[i].body = DirectEntity(ZoneAddress(i)).body
    /\ outcome = Err("not_mapzone") =>
         /\ ZoneResolves(zi)
         /\ DirectEntity(ZoneAddress(zi)).variant # "MapZone"
         /\ Len(written) = mi - 1
         /\ \A k \in 1 .. Len(written) : written[k].hashcode # map_list[mi].hashcode

C5_Witness ==
    /\ pc = "write" /\ mi = 2
    /\ Len(export.mapzone_entities) = 2
    /\ export.mapzone_entities[1] # export.mapzone_entities[2]

\* C6: indirection transparency: every mapzone entity the assembler obtained
\* through the reference table, on the shared cursor, equals the entity
\* decoded directly at reference_pointer_array[k].address; where the cursor
\* stood before the seek makes no difference.
C6_IndirectionTransparent ==
    cmd = "maps" =>
        \A i \in 1 .. Len(export.mapzone_entities) :
            export.mapzone_entities[i] = DirectEntity(ZoneAddress(i))

\* Two zones, the second one at a lower address than the first: the cursor
\* stood behind the second entity when the assembler sought it.
C6_Witness ==
    /\ cmd = "maps" /\ Len(export.mapzone_entities) = 2
    /\ ZoneAddress(2) < ZoneAddress(1)
    /\ export.mapzone_entities[1] # export.mapzone_entities[2]

\* C7: the exported subtype of a trigger is absent exactly when the subtype
\* of its type table entry is 0 or 0x42000001, and is otherwise present and
\* derived from that entry (its number, or the name the definition file
\* gives that number); a definition file never changes absent to present or
\* present to absent.
C7_SubtypeSentinel ==
    cmd = "maps" =>
        \A i \in 1 .. Len(export.triggers) :
            LET sub == TableEntry(i).trig_subtype
                got == export.triggers[i].tsubtype
            IN /\ (got = None) <=> (sub = 0 \/ sub = 1107296257)
               /\ got # None =>
                    \/ got = Some("TrigSub_" \o ToString(sub))
                    \/ /\ IsSome(trigger_typemap)
                       /\ sub \in DOMAIN trigger_typemap[1].triggers
                       /\ got = Some(trigger_typemap[1].triggers[sub])

\* A definition file that names the sentinel, and a trigger whose subtype
\* is the sentinel.
C7_Witness ==
    /\ cmd = "maps" /\ Len(export.triggers) >= 1
    /\ IsSome(trigger_typemap)
    /\ 1107296257 \in DOMAIN trigger_typemap[1].triggers
    /\ TableEntry(1).trig_subtype = 1107296257
    /\ export.triggers[1].tsubtype = None

\* C8: trigger assembly is a per-trigger function of the type table: a list
\* of N triggers with valid type indices yields N Trigger values in list
\* order, and two triggers whose type table entries are equal get the same
\* (type, subtype), wherever they stand in the list.
C8_TriggersPure ==
    cmd = "maps" =>
        /\ \A i \in 1 .. Len(export.triggers) :
             /\ export.triggers[i].link_ref = map.triggers[i].link_ref
             /\ \A j \in 1 .. Len(export.triggers) :
                  TableEntry(i) = TableEntry(j) =>
                      /\ export.triggers[i].ttype = export.triggers[j].ttype
                      /\ export.triggers[i].tsubtype = export.triggers[j].tsubtype
        /\ pc = "trigger" => Len(export.triggers) = ti - 1
        /\ TriggersDone => Len(export.triggers) = Len(map.triggers)
        /\ outcome = Panic("trigger_type_index") =>
             \E i \in 1 .. Len(map.triggers) : ~TypeIndexValid(i)

\* Two triggers with different type indices whose table entries are equal.
C8_Witness ==
    /\ cmd = "maps" /\ pc = "write" /\ Len(export.triggers) = 2
    /\ map.triggers[1].type_index # map.triggers[2].type_index
    /\ TableEntry(1) = TableEntry(2)

\* C9: a trigger whose type_index is no index of the map's type table is
\* reported and skipped: the program does not abort on it.
C9_BadTypeIndexSkipped ==
    outcome # Panic("trigger_type_index")

\* C10: every saved frame has an output buffer of its own, of length
\* width * height * depth * 4 of its record; a record with K frame offsets
\* that was extracted has exactly K of them, in frame order.
SavedOf(k) == {n \in 1 .. Len(saved) : saved[n].tex = k}
RecordOf(k) == texAt[texture_list[k].address]
C10_OutputBuffers ==
    cmd = "textures" =>
        /\ \A n \in 1 .. Len(saved) :
             LET r == RecordOf(saved[n].tex)
             IN /\ saved[n].len = r.width * r.height * r.depth * 4
                /\ \A m \in 1 .. Len(saved) : m # n => saved[m].buf # saved[n].buf
        /\ \A k \in 1 .. Len(texture_list) :
             (k < txi \/ outcome = Ok("textures")) =>
                 Cardinality(SavedOf(k)) = Len(RecordOf(k).frame_offsets)
        /\ pc = "frame" => Cardinality(SavedOf(txi)) = fi - 1

\* Two records extracted, one of two frames and of depth 2.
C10_Witness ==
    /\ outcome = Ok("textures") /\ Len(texture_list) = 2
    /\ Len(saved) >= 3
    /\ \E n \in 1 .. Len(saved) : saved[n].len = 8

\* The frame of the file a saved image was made for: its offset, and the
\* bytes the file holds there (beyond the end of the file it holds none).
FrameOffsetOf(s) == RecordOf(s.tex).frame_offsets[s.frame]
FileBytesAt(off, n) == [j \in 1 .. n |-> RawAt(off + j - 1)]

\* C11: frames are decoded and emitted in the declared order: the image
\* saved with index i in its name was decoded from the bytes of the file at
\* frame_offsets[i], with the width, height, depth and format of its record.
C11_FramesInOrder ==
    cmd = "textures" =>
        \A n \in 1 .. Len(saved) :
            LET s == saved[n]
                r == RecordOf(s.tex)
            IN /\ s.name = <<texture_list[s.tex].hashcode, s.frame - 1>>
               /\ s.pixels.dims = <<r.width, r.height, r.depth>>
               /\ s.pixels.format = r.format
               /\ FrameOffsetOf(s) + Len(s.pixels.raw) <= FileLen
               /\ s.pixels.raw = FileBytesAt(FrameOffsetOf(s), Len(s.pixels.raw))

\* The size the raw buffer of a record must have.
ExpectedSize(r) ==
    IF IsSome(r.data_size) THEN r.data_size[1]
    ELSE GetDataSize(r.width, r.height, r.depth, r.format)[1]

\* C12: the raw buffer has the stored data_size of the record when there is
\* one, otherwise the size the codec derives from the format; it has that
\* size before the first frame is read, and every frame is read at that size.
C12_BufferSize ==
    cmd = "textures" =>
        /\ pc = "frame" => Len(data) = ExpectedSize(tex)
        /\ \A n \in 1 .. Len(saved) :
             Len(saved[n].pixels.raw) = ExpectedSize(RecordOf(saved[n].tex))

\* A record whose stored size differs from the format-derived one, about to
\* read its first frame and having read it.
C12_Witness ==
    /\ cmd = "textures" /\ Len(saved) >= 1
    /\ LET r == RecordOf(saved[Len(saved)].tex)
       IN /\ IsSome(r.data_size)
          /\ r.data_size[1] # GetDataSize(r.width, r.height, r.depth, r.format)[1]
          /\ Len(saved[Len(saved)].pixels.raw) = r.data_size[1]

\* C14: a saved frame depends only on the bytes of the file at its offset
\* and on the dimensions and format of its record: it is what decoding that
\* frame alone, into a fresh buffer, gives, whatever was decoded before it.
C14_FrameAlone ==
    cmd = "textures" =>
        \A n \in 1 .. Len(saved) :
            LET s == saved[n]
                r == RecordOf(s.tex)
            IN s.pixels = Pixels(ReadExact(Zeros(ExpectedSize(r)), FrameOffsetOf(s)),
                                 r.width, r.height, r.depth, r.format)

\* C13: the endianness is selected once, from the first byte of the file:
\* 0x47 selects big-endian and every other value little-endian; the header
\* is read from offset 0, and the header and every texture record are
\* decoded with that endianness.
C13_EndianOnce ==
    cmd = "textures" =>
        LET e == IF first_byte = 71 THEN "Big" ELSE "Little"
        IN /\ endian # "unset" => endian = e
           /\ \A d \in decodes :
                /\ d.endian = e
                /\ d.what = "header" => d.off = 0
           /\ (pc \in {"tex", "frame"} \/ saved # <<>>) =>
                TypedRead("header", e, 0) \in decodes

\* A big-endian file of which a texture record was decoded and a frame saved.
C13_Witness ==
    /\ cmd = "textures" /\ first_byte = 71 /\ endian = "Big"
    /\ Len(saved) >= 1
    /\ \E d \in decodes : d.what = "texture" /\ d.endian = "Big"

\* C15: decoding an entity whose type tag is not recognised succeeds and
\* gives the opaque variant with that tag and the bytes of the entity; the
\* other entities of the file are decoded all the same, and where the maps
\* command meets such an entity the read itself is no error.
C15_UnknownEntityOpaque ==
    cmd = "maps" =>
        /\ entities # <<>> => Len(entities) = FileLen
        /\ \A i \in 1 .. Len(entities) :
             LET raw == entAt[i - 1]
             IN IF raw.tag \in {"mapzone", "mesh"}
                THEN entities[i].variant # "Unknown"
                ELSE /\ entities[i].variant = "Unknown"
                     /\ entities[i].tag = raw.tag
                     /\ entities[i].body = raw.body
        /\ outcome = Err("read_entity") => ZoneAddress(zi) + RecordSize > FileLen

\* A file whose second entity has an unrecognised tag, after its first
\* entity, a mapzone.
C15_Witness ==
    /\ cmd = "maps" /\ Len(entities) = FileLen
    /\ entities[1].variant = "MapZone"
    /\ entities[2].variant = "Unknown" /\ entities[2].tag = "0x7f"

\* C16: a failure while the header is read ends the command with an error
\* value, not with an abort, and nothing was decoded or written.
C16_HeaderFailureIsError ==
    outcome.at = "header" =>
        /\ outcome.kind = "err"
        /\ reads = {}
        /\ saved = <<>> /\ written = <<>> /\ entities = <<>>

SelectedPlatform ==
    IF IsSome(platform_arg) THEN PlatformFromArg(platform_arg[1]) ELSE detected[1]

C18_PlatformSelection ==
    /\ pc \notin {"open", "done"} => platform # "unset"
    /\ platform # "unset" =>
         IF IsSome(platform_arg)
         THEN LET a == platform_arg[1]
              IN /\ platform \in Platforms
                 /\ a \in {"Xb", "Xbox"} => platform = "Xbox"
                 /\ a \in {"Gc", "Gamecube"} => platform = "GameCube"
                 /\ a \notin {"Xb", "Xbox", "Gc", "Gamecube"} => platform = a
         ELSE detected = Some(platform)
    /\ (platform_arg = None /\ detected = None) =>
         /\ platform = "unset"
         /\ reads = {}
         /\ pc = "done" => outcome.kind # "ok"

\* An argument and a detected platform that differ: the argument won, and
\* the command ran to its end.
C18_Witness ==
    /\ platform_arg = Some("Gc") /\ detected = Some("Pc")
    /\ platform = "GameCube"
    /\ outcome.kind = "ok" /\ reads # {}

\* C19: in the maps command every decode begins with a seek to its own
\* absolute address and is done before the next one seeks: a map record is
\* read at the address of its map list entry, a zone entity at the address
\* of its reference pointer, and the cursor moves in no other step; the
\* nested entities command leaves the cursor of the maps command alone.
C19_DecodesDoNotInterleave ==
    [][cmd = "maps" =>
         /\ pc = "entities" => cursor' = cursor
         /\ pc = "map" =>
              /\ ReadRec("map", map_list[mi].address, RecordSize) \in reads'
              /\ cursor' \in {map_list[mi].address, map_list[mi].address + RecordSize}
         /\ (pc = "zone" /\ ZoneRef(zi) < Len(refpointer_list)) =>
              /\ ReadRec("entity", ZoneAddress(zi), RecordSize) \in reads'
              /\ cursor' \in {ZoneAddress(zi), ZoneAddress(zi) + RecordSize}
         /\ pc \in {"trigger", "write"} => cursor' = cursor]_vars

\* The nested command has run, and three decodes at different places since.
C19_Witness ==
    /\ cmd = "maps" /\ entities # <<>>
    /\ Cardinality(reads) >= 3
    /\ cursor < FileLen

BufferBefore(n) ==
    IF saved[n].frame = 1 THEN [j \in 1 .. Len(saved[n].pixels.raw) |-> 0]
    ELSE saved[n - 1].pixels.raw
ShortRead(n) == FrameOffsetOf(saved[n]) + Len(saved[n].pixels.raw) > FileLen

\* C21: a frame whose read fails is neither skipped nor an error: it is
\* decoded and saved like any other, from the raw buffer as the failed read
\* left it: the bytes the file still had at the offset, and behind them
\* what the buffer held before (zeros, or the bytes of the frame before).
C21_ShortReadStillDecoded ==
    cmd = "textures" =>
        /\ \A n \in 1 .. Len(saved) :
             /\ saved[n].frame > 1 =>
                  /\ n > 1 /\ saved[n - 1].tex = saved[n].tex
                  /\ saved[n - 1].frame = saved[n].frame - 1
             /\ \A j \in 1 .. Len(saved[n].pixels.raw) :
                  saved[n].pixels.raw[j] =
                      IF FrameOffsetOf(saved[n]) + j - 1 < FileLen
                      THEN FrameOffsetOf(saved[n]) + j
                      ELSE BufferBefore(n)[j]
        /\ pc = "frame" => Cardinality(SavedOf(txi)) = fi - 1
        /\ outcome = Err("decode") =>
             \/ tex.format # "raw"
             \/ Len(data) < tex.width * tex.height * tex.depth

\* A second frame whose read failed, saved with a byte of the first frame.
C21_Witness ==
    /\ cmd = "textures"
    /\ \E n \in 2 .. Len(saved) :
         /\ saved[n].frame = 2 /\ ShortRead(n)
         /\ \E j \in 1 .. Len(saved[n].pixels.raw) :
              /\ FrameOffsetOf(saved[n]) + j - 1 >= FileLen
              /\ saved[n].pixels.raw[j] = saved[n - 1].pixels.raw[j]
              /\ saved[n].pixels.raw[j] # 0

\* C22: the raw buffer is cleared and zero-filled at the chosen size before
\* the first frame of every record: at the first frame it is all zeros of
\* that size, and every byte a saved frame was decoded from is a zero or a
\* byte read at a frame offset of its own record.
C22_BufferClearedPerRecord ==
    cmd = "textures" =>
        /\ (pc = "frame" /\ fi = 1) =>
             /\ Len(data) = ExpectedSize(tex)
             /\ \A j \in 1 .. Len(data) : data[j] = 0
        /\ pc = "frame" => Len(data) = ExpectedSize(tex)
        /\ \A n \in 1 .. Len(saved) :
             LET r == RecordOf(saved[n].tex)
                 raw == saved[n].pixels.raw
             IN /\ Len(raw) = ExpectedSize(r)
                /\ \A j \in 1 .. Len(raw) :
                     \/ raw[j] = 0
                     \/ \E k \in 1 .. saved[n].frame :
                          /\ r.frame_offsets[k] + j - 1 < FileLen
                          /\ raw[j] = r.frame_offsets[k] + j

\* A record whose only frame lies beyond the end of the file, extracted
\* after a record whose frame was read: its buffer holds zeros only.
C22_Witness ==
    /\ cmd = "textures" /\ Len(saved) >= 2
    /\ saved[1].tex = 1 /\ saved[1].pixels.raw[1] # 0
    /\ saved[2].tex = 2 /\ saved[2].frame = 1
    /\ FrameOffsetOf(saved[2]) >= FileLen
    /\ \A j \in 1 .. Len(saved[2].pixels.raw) : saved[2].pixels.raw[j] = 0

\* The selected script and the time its last frame ends, for the formulas.
HasScript == IsSome(CurrentScript(scripts, selected_script))
SelectedEnd == EndTime(CurrentScript(scripts, selected_script)[1])

\* C23: the playback time stays in range: at the end of every show call
\* with a script selected, 0 <= current_time <= length / framerate.
C23_TimeInRange ==
    HasScript => (0 <= current_time /\ current_time <= SelectedEnd)

\* Playback that has stopped by itself at the end of the selected script.
StoppedAtEnd == HasScript /\ ~is_playing /\ current_time = SelectedEnd

\* C24: end of script.  In a show call without input: a paused panel keeps
\* its time and stays paused; looping playback keeps playing, and its time
\* either went on or wrapped to 0, never behind the end; playback that does
\* not loop either goes on or stops exactly at the end.  And playback that
\* does not loop leads to its stop at the end of the script, unless an input
\* comes first.
C24_EndOfScript ==
    /\ [][(HasScript /\ ~had_input') =>
            /\ ~is_playing => (current_time' = current_time /\ ~is_playing')
            /\ (is_playing /\ loop_script) =>
                 /\ is_playing'
                 /\ current_time' <= SelectedEnd
                 /\ current_time' >= current_time \/ current_time' = 0
            /\ (is_playing /\ ~loop_script) =>
                 /\ current_time' >= current_time
                 /\ current_time' <= SelectedEnd
                 /\ ~is_playing' => current_time' = SelectedEnd]_vars
    /\ (HasScript /\ is_playing /\ ~loop_script) ~> (StoppedAtEnd \/ had_input)

\* Playback of a script of two frames that stopped by itself at its end.
C24_Witness ==
    /\ StoppedAtEnd /\ ~loop_script /\ ~had_input
    /\ current_time > 0
    /\ last_press = None

\* C25: a play/pause press toggles is_playing and changes nothing else,
\* except that with a script selected and the time at or behind the end of
\* the script it sets the time to 0.
C25_PlayPausePress ==
    IsSome(last_press) =>
        LET b == last_press[1].before
            a == last_press[1].after
            c == CurrentScript(scripts, b.selected_script)
        IN /\ a.is_playing = ~b.is_playing
           /\ a.loop_script = b.loop_script
           /\ a.selected_script = b.selected_script
           /\ a.playback_speed = b.playback_speed
           /\ a.current_time =
                IF IsSome(c) /\ b.current_time * c[1].framerate >= c[1].length * TimeScale
                THEN 0 ELSE b.current_time

\* Play pressed on playback that had stopped at the end of a script: it
\* plays again, from 0.
C25_Witness ==
    /\ IsSome(last_press)
    /\ ~last_press[1].before.is_playing
    /\ last_press[1].before.current_time > 0
    /\ last_press[1].after.is_playing
    /\ last_press[1].after.current_time = 0
=============================================================================
